---- MODULE Spec2Model ----
(***************************************************************************)
(* Ingestion orchestration layer of gateway-matrix-api: the process        *)
(* supervisor (FFmpegWrapper), the source lifecycle controller             *)
(* (SourceMonitorWorker), reconnect_source and the channel start/stop      *)
(* operations, as cooperative asyncio tasks on one event loop.  A step of  *)
(* the model is the code a task runs between two suspension points.        *)
(***************************************************************************)
EXTENDS Integers, Sequences, FiniteSets, TLC

\* ---- bounds of the model ----
MaxProcs == 3      \* external processes spawned in one behaviour
NumReqs == 2       \* API requests that may be suspended at the same time
MaxMetrics == 2    \* SourceMetric rows appended in one behaviour
TickLen == 30      \* seconds by which the clock advances in one step
MaxTicks == 3      \* clock steps followed inside one day
MaxDays == 1       \* whole days told apart; later days are folded onto the last
AlertTickLen == 150 \* seconds by which the clock advances between alert cycles
MaxAlertTicks == 2 \* such steps followed inside one day
MaxFirings == 3    \* rule firings after which no further alert cycle is followed
MaxRecs == 2       \* Recording rows in the recordings table
MaxEvents == 4     \* ChannelEvent rows after which no further switch_source is followed

\* ---- keys of the supervisor registry ----
SrcKey == "s1"
ChanKey == "channel_c1"
Keys == {SrcKey, ChanKey}

Pids == 1..MaxProcs
NoPid == 0
Reqs == 1..NumReqs
\* shutdown_all gathers one stop_ingest task per key
SdSlot(k) == IF k = SrcKey THEN NumReqs + 1 ELSE NumReqs + 2
Slots == 1..(NumReqs + 2)

SourceStatus == {"connecting", "online", "unstable", "offline", "error"}

VARIABLES
  proc,         \* pid -> [key, st, handle, stderr]: OS process and its FFmpegProcess object
  registry,     \* FFmpegWrapper.active_processes, as a set of <<key, pid>> entries
  srcStatus,    \* Source.status
  lastSeen,     \* Source.last_seen_at: 0 = NULL, n = the time of the n-th valid probe
  metrics,      \* SourceMetric rows of the source (their timestamp), in order
  hasLastProbe, \* source_id in SourceMonitorWorker.last_probe
  monPc,        \* position of the lifecycle cycle
  monPid,       \* process spawned by the cycle and not yet registered
  chanStatus,   \* Channel.status
  events,       \* ChannelEvent rows of the channel (event_type), in order
  req,          \* suspended tasks: API requests and shutdown_all's stop tasks
  shutdown,     \* lifespan shutdown has begun
  seq,          \* history of the supervisor calls per key (stop then start)
  now,          \* datetime.utcnow() - source.created_at, in seconds
  bitrate,      \* bitrate_kbps of the most recent SourceMetric row, or NoBitrate
  linked,       \* a Channel row has source_id = the source
  alertTrig,    \* AlertRule.last_triggered of every rule: entity -> time
  alerts,       \* AIInsight rows created by the alert worker, in order
  firings,      \* history: the mark_triggered calls, in order
  recs,         \* the recordings table: id -> [status, started, ended, duration, size]
  recEnabled,   \* Channel.recording_enabled
  activeRecordings, \* RecordingWorker.active_recordings (its keys)
  ret,          \* what the last manual recording request returned
  workers,      \* the three worker loops: where each stands in its cycle
  reconnectedAt \* history: the clock when reconnect_source last set connecting

vars == <<proc, registry, srcStatus, lastSeen, metrics, hasLastProbe,
          monPc, monPid, chanStatus, events,
          req, shutdown, seq, now,
          bitrate, linked, alertTrig, alerts, firings,
          recs, recEnabled, activeRecordings, ret, workers, reconnectedAt>>

coreVars == <<proc, registry, srcStatus, lastSeen, metrics, hasLastProbe,
              monPc, monPid, chanStatus, events, req, shutdown, seq>>
alertVars == <<bitrate, linked, alertTrig, alerts, firings>>
recVars == <<recs, recEnabled, activeRecordings, ret>>
auxVars == <<now, alertVars, recVars, workers, reconnectedAt>>

\* ---- the alert rules ----
Rules == <<"source_disconnected", "low_bitrate", "high_packet_loss",
           "channel_unexpected_offline">>
RuleNames == {Rules[i] : i \in 1..Len(Rules)}
ChanId == "c1"
Entities == {SrcKey, ChanId}
NoTime == -1
\* bitrate_kbps is NULL, or the source has no SourceMetric row
NoBitrate == -1
NoTrig == [rule \in RuleNames |-> [e \in Entities |-> NoTime]]

\* ---- the recordings table ----
RecIds == 1..MaxRecs
NoRec == [status |-> "absent", started |-> NoTime, ended |-> NoTime,
          duration |-> NoTime, size |-> "null"]
NoRecs == [i \in RecIds |-> NoRec]

\* ---- the worker loops ----
Workers == {"lifecycle", "recording", "alerts"}
\* a worker between two cycles, the one before still to come
IdleWorker == [pc |-> "sleep", todo |-> <<>>, done |-> {}, raised |-> {}]
IdleWorkers == [w \in Workers |-> IdleWorker]

srcVars == <<srcStatus, lastSeen, metrics, hasLastProbe>>
monVars == <<monPc, monPid>>
chanVars == <<chanStatus, events>>

NoProc == [key |-> SrcKey, st |-> "none", handle |-> "none", stderr |-> FALSE]
FreeReq == [op |-> "none", key |-> SrcKey, h |-> NoPid, pc |-> "none"]

\* ---- the registry dict ----
HasKey(reg, k) == \E e \in reg : e[1] = k
Lookup(reg, k) == (CHOOSE e \in reg : e[1] = k)[2]
\* an assignment that leaves the previous entry of the key in place
DictSetKeepOld(reg, k, p) == reg \cup {<<k, p>>}
DictSet(reg, k, p) == {e \in reg : e[1] # k} \cup {<<k, p>>}
\* a del that leaves the entry of the key in place
DictDelKeepEntry(reg, k) == {e \in reg : e[1] # k \/ e[1] = k}
DictDel(reg, k) == {e \in reg : e[1] # k}

\* FFmpegWrapper.is_running
IsRunning(k) == HasKey(registry, k) /\ proc[Lookup(registry, k)].handle = "live"

Spawned == {p \in Pids : proc[p].st # "none"}
NextPid == Cardinality(Spawned) + 1
CanSpawn == NextPid <= MaxProcs

\* asyncio.create_subprocess_exec returned a process for key k
SpawnProc(k, withCallback) ==
  proc' = [proc EXCEPT ![NextPid] =
             [key |-> k, st |-> "running", handle |-> "none", stderr |-> withCallback]]

\* FFmpegProcess(process, cmd); self.active_processes[source_id] = ffmpeg_proc
Register(k, p) ==
  /\ proc' = [proc EXCEPT ![p].handle = "live"]
  /\ registry' = DictSet(registry, k, p)

\* other supervisor calls for key k are in flight
StartsInFlight(k) ==
  {r \in Reqs : /\ req[r].key = k
                /\ \/ req[r].op = "start_channel"
                   \/ req[r].op = "switch" /\ req[r].pc = "spawned"}
StopsInFlight(k) ==
  {r \in Slots : /\ req[r].key = k
                 /\ \/ req[r].op \in {"reconnect", "stop_channel", "shutdown_stop"}
                    \/ req[r].op = "switch" /\ req[r].pc = "waiting"}
MonStarting(k) == k = SrcKey /\ monPc = "spawned"
Quiet(k) == StartsInFlight(k) = {} /\ StopsInFlight(k) = {} /\ ~MonStarting(k)

Init ==
  /\ proc = [p \in Pids |-> NoProc]
  /\ registry = {}
  /\ srcStatus = "connecting"
  /\ lastSeen = 0
  /\ metrics = <<>>
  /\ hasLastProbe = FALSE
  /\ monPc = "idle"
  /\ monPid = NoPid
  /\ chanStatus = "offline"
  /\ events = <<>>
  /\ req = [r \in Slots |-> FreeReq]
  /\ shutdown = FALSE
  /\ seq = [k \in Keys |-> "idle"]
  /\ now = 0
  /\ bitrate = NoBitrate
  /\ linked = TRUE
  /\ alertTrig = NoTrig
  /\ alerts = <<>>
  /\ firings = <<>>
  /\ recs = NoRecs
  /\ recEnabled = FALSE
  /\ activeRecordings = {}
  /\ ret = "none"
  /\ workers = IdleWorkers
  /\ reconnectedAt = NoTime


\* ---- history of supervisor calls on a key ----
SeqStopReturned(k, others) == IF others THEN "idle" ELSE "stopped"
SeqStartBegun(k, others) == IF seq[k] = "stopped" /\ ~others THEN "starting" ELSE "idle"
SeqStartRegistered(k) == IF seq[k] = "starting" THEN "stop_start" ELSE "idle"

\* ---- external processes ----
\* the process ends, on its own or after the termination signal
ProcExit(p) ==
  /\ proc[p].st = "running"
  /\ proc' = [proc EXCEPT ![p].st = "exited"]
  /\ UNCHANGED <<registry, srcVars, monVars, chanVars, req, shutdown, seq, auxVars>>

\* _monitor_stderr reads a line with a failure keyword and awaits on_error,
\* the closure of _start_ingest: update_source(status="error")
StderrError(p) ==
  /\ proc[p].stderr
  /\ proc[p].handle # "none"
  /\ srcStatus' = "error"
  /\ UNCHANGED <<proc, registry, lastSeen, metrics, hasLastProbe,
                 monVars, chanVars, req, shutdown, seq, auxVars>>

\* _monitor_stderr reads end of file and ends
StderrEOF(p) ==
  /\ proc[p].stderr
  /\ proc[p].handle # "none"
  /\ proc[p].st = "exited"
  /\ proc' = [proc EXCEPT ![p].stderr = FALSE]
  /\ UNCHANGED <<registry, srcVars, monVars, chanVars, req, shutdown, seq, auxVars>>

\* ---- stop_ingest and its callers ----
\* what the caller does once stop_ingest has returned (ok) or raised (~ok)
Finish(op, ok) ==
  /\ srcStatus' = IF op = "reconnect" /\ ok THEN "connecting" ELSE srcStatus
  /\ chanStatus' = IF op = "stop_channel" /\ ok THEN "offline" ELSE chanStatus
  /\ events' = IF op = "stop_channel" /\ ok THEN Append(events, "stopped") ELSE events

\* stop_ingest(k) from its call to its first suspension, for the task in slot r
StopBegin(r, op, k) ==
  LET others == ~(StartsInFlight(k) = {} /\ (StopsInFlight(k) \ {r}) = {} /\ ~MonStarting(k)) IN
  IF ~HasKey(registry, k)
  THEN \* not registered: returns False
       /\ Finish(op, TRUE)
       /\ req' = [req EXCEPT ![r] = FreeReq]
       /\ seq' = [seq EXCEPT ![k] = SeqStopReturned(k, others)]
       /\ UNCHANGED <<proc, registry>>
  ELSE LET h == Lookup(registry, k) IN
       IF proc[h].handle # "live"
       THEN \* terminate() does nothing; the entry is deleted
            /\ registry' = DictDel(registry, k)
            /\ Finish(op, TRUE)
            /\ req' = [req EXCEPT ![r] = FreeReq]
            /\ seq' = [seq EXCEPT ![k] = SeqStopReturned(k, others)]
            /\ UNCHANGED proc
       ELSE \/ \* process.terminate() sent, suspended in process.wait()
               /\ req' = [req EXCEPT ![r] = [op |-> op, key |-> k, h |-> h, pc |-> "waiting"]]
               /\ seq' = [seq EXCEPT ![k] = "idle"]
               /\ UNCHANGED <<proc, registry, srcStatus, chanStatus, events>>
            \/ \* the process is gone already: terminate() raises ProcessLookupError
               /\ proc[h].st = "exited"
               /\ Finish(op, FALSE)
               /\ req' = [req EXCEPT ![r] = FreeReq]
               /\ seq' = [seq EXCEPT ![k] = "idle"]
               /\ UNCHANGED <<proc, registry>>

\* wait_for timed out after 5 s: process.kill()
StopKill(r) ==
  /\ req[r].pc = "waiting"
  /\ proc[req[r].h].st = "running"
  /\ proc' = [proc EXCEPT ![req[r].h].st = "exited"]
  /\ UNCHANGED <<registry, srcVars, monVars, chanVars, req, shutdown, seq, auxVars>>

\* process.wait() returned: is_running = False, del active_processes[key]
StopResume(r) ==
  LET k == req[r].key
      h == req[r].h
      others == ~(StartsInFlight(k) = {} /\ (StopsInFlight(k) \ {r}) = {} /\ ~MonStarting(k)) IN
  /\ req[r].pc = "waiting"
  /\ req[r].op # "switch"
  /\ proc[h].st = "exited"
  /\ proc' = [proc EXCEPT ![h].handle = "stopped"]
  /\ IF HasKey(registry, k)
     THEN /\ registry' = DictDel(registry, k)
          /\ Finish(req[r].op, TRUE)
          /\ seq' = [seq EXCEPT ![k] = SeqStopReturned(k, others)]
     ELSE \* KeyError
          /\ registry' = registry
          /\ Finish(req[r].op, FALSE)
          /\ seq' = [seq EXCEPT ![k] = "idle"]
  /\ req' = [req EXCEPT ![r] = FreeReq]
  /\ UNCHANGED <<lastSeen, metrics, hasLastProbe, monVars, shutdown, auxVars>>

FreeSlot(r) == req[r].op = "none" /\ \A q \in Reqs : q < r => req[q].op # "none"

\* POST /sources/{id}/reconnect -> SourceService.reconnect_source
ReconnectSource(r) ==
  /\ ~shutdown
  /\ FreeSlot(r)
  /\ StopBegin(r, "reconnect", SrcKey)
  /\ UNCHANGED <<lastSeen, metrics, hasLastProbe, monVars, shutdown, auxVars>>

\* POST /channels/{id}/stop -> ChannelService.stop_channel
StopChannel(r) ==
  /\ ~shutdown
  /\ FreeSlot(r)
  /\ chanStatus = "live"
  /\ StopBegin(r, "stop_channel", ChanKey)
  /\ UNCHANGED <<lastSeen, metrics, hasLastProbe, monVars, shutdown, auxVars>>


\* ---- the source lifecycle controller ----
\* SourceMonitorWorker._should_probe; elapsed: the time since the last
\* successful probe has reached probe_interval
ShouldProbe(elapsed) == ~hasLastProbe \/ elapsed

\* a valid probe that updates the source but appends no metric row
ProbeDoneNoMetric(pc, valid, late) ==
  IF valid
  THEN /\ Len(metrics) < MaxMetrics
       /\ srcStatus' = IF pc = "probe_connecting" THEN "online" ELSE srcStatus
       /\ lastSeen' = Len(metrics) + 1
       /\ hasLastProbe' = TRUE
       /\ UNCHANGED metrics
  ELSE /\ srcStatus' = IF pc = "probe_connecting"
                       THEN (IF late THEN "error" ELSE srcStatus)
                       ELSE "unstable"
       /\ UNCHANGED <<metrics, lastSeen, hasLastProbe>>

\* _handle_connecting / _handle_online after stream_probe.probe returned
\* (valid: stream_info and stream_info.is_valid(); late: more than 60 s
\* on the clock since source.created_at)
ProbeDone(pc, valid, late) ==
  IF valid
  THEN /\ Len(metrics) < MaxMetrics
       /\ srcStatus' = IF pc = "probe_connecting" THEN "online" ELSE srcStatus
       /\ lastSeen' = Len(metrics) + 1
       /\ metrics' = Append(metrics, Len(metrics) + 1)
       /\ hasLastProbe' = TRUE
  ELSE /\ srcStatus' = IF pc = "probe_connecting"
                       THEN (IF late THEN "error" ELSE srcStatus)
                       ELSE "unstable"
       /\ UNCHANGED <<metrics, lastSeen, hasLastProbe>>

\* ---- start_ingest ----
Protocols == {"srt", "youtube"}

\* _build_input_args: for a youtube source the stream URL is resolved first
\* (resolved: _extract_youtube_url returned one); ValueError when it was not
\* a builder that goes on with the page URL when none was resolved
InputArgsNeverRaise(protocol, resolved) == protocol = "youtube" /\ ~resolved /\ resolved
InputArgsRaise(protocol, resolved) == protocol = "youtube" /\ ~resolved

\* what the history of the key keeps of a start that raised
SeqStartRaised(protocol, resolved) ==
  IF InputArgsRaise(protocol, resolved) THEN "input_raised" ELSE "spawn_raised"

\* a failed start that leaves a handle behind for the key
StartIngestRaisedRegisters(k, protocol, resolved) ==
  /\ seq' = [seq EXCEPT ![k] = SeqStartRaised(protocol, resolved)]
  /\ registry' = DictSet(registry, k, MaxProcs)
  /\ UNCHANGED proc
\* start_ingest raises, from _build_input_args or from create_subprocess_exec:
\* no process, no FFmpegProcess, no entry
StartIngestRaised(k, protocol, resolved) ==
  /\ seq' = [seq EXCEPT ![k] = SeqStartRaised(protocol, resolved)]
  /\ UNCHANGED <<proc, registry>>

\* _monitor_source, up to its first suspension; the resolution of a youtube
\* URL and the spawn that follows it are taken as one step
MonitorSource(protocol, resolved) ==
  /\ ~shutdown
  /\ monPc = "idle"
  /\ IF srcStatus = "connecting" /\ ~IsRunning(SrcKey)
     THEN \* _start_ingest -> ffmpeg_wrapper.start_ingest
          \/ /\ ~InputArgsRaise(protocol, resolved)
             /\ CanSpawn
             /\ SpawnProc(SrcKey, TRUE)
             /\ monPc' = "spawned"
             /\ monPid' = NextPid
             /\ seq' = [seq EXCEPT ![SrcKey] =
                          SeqStartBegun(SrcKey, StopsInFlight(SrcKey) # {})]
             /\ UNCHANGED <<srcStatus, registry>>
          \/ \* start_ingest raises: on_error, then the except of _start_ingest
             /\ srcStatus' = "error"
             /\ StartIngestRaised(SrcKey, protocol, resolved)
             /\ UNCHANGED monVars
     ELSE IF srcStatus = "online" /\ ~IsRunning(SrcKey)
     THEN /\ srcStatus' = "offline"
          /\ UNCHANGED <<proc, registry, monVars, seq>>
     ELSE IF srcStatus \in {"connecting", "online"}
     THEN \E elapsed \in BOOLEAN :
            /\ monPc' = IF ~ShouldProbe(elapsed) THEN "idle"
                        ELSE IF srcStatus = "connecting" THEN "probe_connecting"
                        ELSE "probe_online"
            /\ UNCHANGED <<proc, registry, srcStatus, monPid, seq>>
     ELSE \* _handle_offline, _handle_error, and no branch for unstable: nothing
          UNCHANGED <<proc, registry, srcStatus, monVars, seq>>
  /\ UNCHANGED <<lastSeen, metrics, hasLastProbe, chanVars, req, shutdown, auxVars>>

\* one pass of _monitor_cycle over the source, whatever its protocol
MonitorCycle ==
  \E protocol \in Protocols, resolved \in BOOLEAN : MonitorSource(protocol, resolved)

\* start_ingest resumes after create_subprocess_exec: registers the handle
MonRegister ==
  /\ monPc = "spawned"
  /\ Register(SrcKey, monPid)
  /\ monPc' = "idle"
  /\ monPid' = NoPid
  /\ seq' = [seq EXCEPT ![SrcKey] = SeqStartRegistered(SrcKey)]
  /\ UNCHANGED <<srcVars, chanVars, req, shutdown, auxVars>>

\* the cycle resumes after the probe
MonProbeDone ==
  /\ monPc \in {"probe_connecting", "probe_online"}
  /\ \E valid, late \in BOOLEAN : ProbeDone(monPc, valid, late)
  /\ monPc' = "idle"
  /\ UNCHANGED <<proc, registry, monPid, chanVars, req, shutdown, seq, auxVars>>

\* ---- the channel operations ----
\* POST /channels/{id}/start -> ChannelService.start_channel, up to the spawn
\* a test that lets a source of any status through
SourceReadyAnyStatus == srcStatus \in SourceStatus
\* start_channel: the source of the channel is online
SourceReady == srcStatus = "online"

StartChannelCall(r, protocol, resolved) ==
  /\ ~shutdown
  /\ FreeSlot(r)
  /\ chanStatus # "live"
  /\ SourceReady
  /\ \/ /\ ~InputArgsRaise(protocol, resolved)
        /\ CanSpawn
        /\ SpawnProc(ChanKey, FALSE)
        /\ req' = [req EXCEPT ![r] =
                     [op |-> "start_channel", key |-> ChanKey, h |-> NextPid, pc |-> "spawned"]]
        /\ seq' = [seq EXCEPT ![ChanKey] =
                     SeqStartBegun(ChanKey, ~Quiet(ChanKey))]
        /\ UNCHANGED <<chanVars, registry>>
     \/ \* start_ingest raises: status error, re-raised
        /\ chanStatus' = "error"
        /\ StartIngestRaised(ChanKey, protocol, resolved)
        /\ UNCHANGED <<events, req>>
  /\ UNCHANGED <<srcVars, monVars, shutdown, auxVars>>

StartChannel(r) ==
  \E protocol \in Protocols, resolved \in BOOLEAN : StartChannelCall(r, protocol, resolved)

\* start_channel resumes: the handle is registered, status live, event started
StartChannelRegister(r) ==
  /\ req[r].op = "start_channel"
  /\ Register(ChanKey, req[r].h)
  /\ chanStatus' = "live"
  /\ events' = Append(events, "started")
  /\ req' = [req EXCEPT ![r] = FreeReq]
  /\ seq' = [seq EXCEPT ![ChanKey] = SeqStartRegistered(ChanKey)]
  /\ UNCHANGED <<srcVars, monVars, shutdown, auxVars>>

\* ---- shutdown ----
\* lifespan shutdown: the worker task is cancelled where it is suspended
\* (CancelledError is not an Exception, start() does not catch it) and awaited;
\* a cycle cancelled inside create_subprocess_exec has its child killed and
\* reaped by asyncio.  Then shutdown_all gathers a stop_ingest task for every
\* registered key
Shutdown ==
  /\ ~shutdown
  /\ \A r \in Reqs : req[r].op = "none"
  /\ shutdown' = TRUE
  /\ monPc' = "cancelled"
  /\ monPid' = NoPid
  /\ proc' = IF monPc = "spawned" THEN [proc EXCEPT ![monPid].st = "exited"] ELSE proc
  /\ req' = [r \in Slots |->
               IF \E k \in Keys : r = SdSlot(k) /\ HasKey(registry, k)
               THEN [op |-> "shutdown_stop",
                     key |-> CHOOSE k \in Keys : r = SdSlot(k),
                     h |-> NoPid, pc |-> "pending"]
               ELSE req[r]]
  /\ UNCHANGED <<registry, srcVars, chanVars, seq, auxVars>>

\* a gathered stop_ingest task starts running
ShutdownStop(k) ==
  /\ req[SdSlot(k)].pc = "pending"
  /\ StopBegin(SdSlot(k), "shutdown_stop", k)
  /\ UNCHANGED <<lastSeen, metrics, hasLastProbe, monVars, shutdown, auxVars>>

Next ==
  \/ \E p \in Pids : ProcExit(p)
  \/ \E p \in Pids : StderrError(p)
  \/ \E p \in Pids : StderrEOF(p)
  \/ MonitorCycle
  \/ MonRegister
  \/ MonProbeDone
  \/ \E r \in Reqs : ReconnectSource(r)
  \/ \E r \in Reqs : StartChannel(r)
  \/ \E r \in Reqs : StartChannelRegister(r)
  \/ \E r \in Reqs : StopChannel(r)
  \/ \E r \in Slots : StopKill(r)
  \/ \E r \in Slots : StopResume(r)
  \/ Shutdown
  \/ \E k \in Keys : ShutdownStop(k)

Spec == Init /\ [][Next]_vars

\* the source alone: lifecycle cycles, error callbacks, reconnects, shutdown
NextLifecycle ==
  \/ \E p \in Pids : ProcExit(p)
  \/ \E p \in Pids : StderrError(p)
  \/ \E p \in Pids : StderrEOF(p)
  \/ MonitorCycle
  \/ MonRegister
  \/ MonProbeDone
  \/ \E r \in Reqs : ReconnectSource(r)
  \/ \E r \in Slots : StopKill(r)
  \/ \E r \in Slots : StopResume(r)
  \/ Shutdown
  \/ \E k \in Keys : ShutdownStop(k)

SpecLifecycle == Init /\ [][NextLifecycle]_vars

\* the channel alone, from the state in which the first lifecycle cycles have
\* started the source's process and a valid probe has set the source online
InitOnline ==
  /\ proc = [p \in Pids |->
               IF p = 1
               THEN [key |-> SrcKey, st |-> "running", handle |-> "live", stderr |-> TRUE]
               ELSE NoProc]
  /\ registry = {<<SrcKey, 1>>}
  /\ srcStatus = "online"
  /\ lastSeen = 1
  /\ metrics = <<1>>
  /\ hasLastProbe = TRUE
  /\ monPc = "idle"
  /\ monPid = NoPid
  /\ chanStatus = "offline"
  /\ events = <<>>
  /\ req = [r \in Slots |-> FreeReq]
  /\ shutdown = FALSE
  /\ seq = [k \in Keys |-> "idle"]
  /\ now = 0
  /\ bitrate = NoBitrate
  /\ linked = TRUE
  /\ alertTrig = NoTrig
  /\ alerts = <<>>
  /\ firings = <<>>
  /\ recs = NoRecs
  /\ recEnabled = FALSE
  /\ activeRecordings = {}
  /\ ret = "none"
  /\ workers = IdleWorkers
  /\ reconnectedAt = NoTime

NextChannel ==
  \/ \E p \in Pids : ProcExit(p)
  \/ \E r \in Reqs : StartChannel(r)
  \/ \E r \in Reqs : StartChannelRegister(r)
  \/ \E r \in Reqs : StopChannel(r)
  \/ \E r \in Slots : StopKill(r)
  \/ \E r \in Slots : StopResume(r)
  \/ Shutdown
  \/ \E k \in Keys : ShutdownStop(k)

SpecChannel == InitOnline /\ [][NextChannel]_vars

\* ---- the connect deadline on the clock ----
DaySeconds == 86400
ConnectDeadline == 60

\* timedelta.seconds: the seconds within the day, the days left out
Seconds(td) == td % DaySeconds

\* a deadline that is reached at 60 s instead of after 60 s
ConnectTimedOutAtDeadline(t) == Seconds(t) >= ConnectDeadline
\* (datetime.utcnow() - source.created_at).seconds > 60
ConnectTimedOut(t) == Seconds(t) > ConnectDeadline

ClockValues ==
  {d * DaySeconds + n * TickLen : d \in 0..MaxDays, n \in 0..MaxTicks}

\* time passes: by one step inside the modelled stretch of the day; its last
\* point stands for the rest of the day, after which the next day begins
Tick ==
  /\ now' = IF Seconds(now) + TickLen <= MaxTicks * TickLen
            THEN now + TickLen
            ELSE IF now \div DaySeconds < MaxDays
            THEN (now \div DaySeconds + 1) * DaySeconds
            ELSE MaxDays * DaySeconds
  /\ UNCHANGED <<coreVars, alertVars, recVars, workers, reconnectedAt>>

\* the cycle resumes after the probe and reads the clock for the deadline
MonProbeDoneTimed ==
  /\ monPc \in {"probe_connecting", "probe_online"}
  /\ \E valid \in BOOLEAN : ProbeDone(monPc, valid, ConnectTimedOut(now))
  /\ monPc' = "idle"
  /\ UNCHANGED <<proc, registry, monPid, chanVars, req, shutdown, seq, auxVars>>

\* reconnect_source on the clock, for a source with no live handle registered
\* (stop_ingest returns at once): update_source(status="connecting"), which
\* sets updated_at and leaves created_at as it is
ReconnectSourceTimed(r) ==
  /\ ~shutdown
  /\ FreeSlot(r)
  /\ ~IsRunning(SrcKey)
  /\ StopBegin(r, "reconnect", SrcKey)
  /\ reconnectedAt' = now
  /\ UNCHANGED <<lastSeen, metrics, hasLastProbe, monVars, shutdown,
                 now, alertVars, recVars, workers>>

\* a source on the clock with the reconnects of an operator
NextReconnect ==
  \/ Tick
  \/ \E p \in Pids : ProcExit(p)
  \/ MonitorCycle
  \/ MonRegister
  \/ MonProbeDoneTimed
  \/ ReconnectSourceTimed(1)

\* a source in connecting at any age: just created, or set back to connecting
\* by a reconnect after it had been online
InitConnect ==
  /\ registry = {}
  /\ srcStatus = "connecting"
  /\ \E wasOnline \in BOOLEAN :
       /\ proc = [p \in Pids |->
                    IF wasOnline /\ p = 1
                    THEN [key |-> SrcKey, st |-> "exited", handle |-> "stopped", stderr |-> FALSE]
                    ELSE NoProc]
       /\ hasLastProbe = wasOnline
       /\ lastSeen = (IF wasOnline THEN 1 ELSE 0)
       /\ metrics = (IF wasOnline THEN <<1>> ELSE <<>>)
  /\ monPc = "idle"
  /\ monPid = NoPid
  /\ chanStatus = "offline"
  /\ events = <<>>
  /\ req = [r \in Slots |-> FreeReq]
  /\ shutdown = FALSE
  /\ seq = [k \in Keys |-> "idle"]
  /\ now \in ClockValues
  /\ bitrate = NoBitrate
  /\ linked = TRUE
  /\ alertTrig = NoTrig
  /\ alerts = <<>>
  /\ firings = <<>>
  /\ recs = NoRecs
  /\ recEnabled = FALSE
  /\ activeRecordings = {}
  /\ ret = "none"
  /\ workers = IdleWorkers
  /\ reconnectedAt = NoTime

NextConnect ==
  \/ Tick
  \/ \E p \in Pids : ProcExit(p)
  \/ MonitorCycle
  \/ MonRegister
  \/ MonProbeDoneTimed

\* the cycle runs every monitor_interval and a probe returns within its
\* timeout, so cycles and probe returns fall into every stretch of the clock
FairConnect ==
  /\ WF_vars(Tick)
  /\ WF_vars(MonRegister)
  /\ WF_vars(MonProbeDoneTimed)
  /\ SF_vars(MonitorCycle /\ ConnectTimedOut(now) /\ monPc' # "idle")
  /\ SF_vars(MonProbeDoneTimed /\ ConnectTimedOut(now))

SpecConnect == InitConnect /\ [][NextConnect]_vars /\ FairConnect

SpecReconnect == InitConnect /\ [][NextReconnect]_vars

\* ---- the alert worker ----
CooldownSeconds == 300
LowBitrateThreshold == 500
\* the bit_rate ffprobe reports for the stream, in bit/s (0: none reported)
ProbeBitrates == {0, 500, 300000, 500000, 800000}
\* _handle_connecting / _handle_online: stream_info.bitrate // 1000 if
\* stream_info.bitrate else None
BitrateKbps(bps) == IF bps = 0 THEN NoBitrate ELSE bps \div 1000
Bitrates == {BitrateKbps(bps) : bps \in ProbeBitrates}
\* _check_low_bitrate: `recent_metric and recent_metric.bitrate_kbps`, which is
\* false for NULL and for 0
HasBitrate(b) == b # NoBitrate /\ b # 0

RuleSeverity(rule) ==
  IF rule \in {"source_disconnected", "channel_unexpected_offline"}
  THEN "critical" ELSE "warning"

\* the entities a rule's check function returns; recent: last_seen_at within
\* the last hour; highLoss: packet_loss_percent of the latest row above 5
Detected(rule, recent, highLoss) ==
  IF rule = "source_disconnected"
  THEN IF srcStatus \in {"offline", "error"} /\ lastSeen # 0 /\ recent
       THEN {SrcKey} ELSE {}
  ELSE IF rule = "low_bitrate"
  THEN IF srcStatus = "online" /\ HasBitrate(bitrate) /\ bitrate < LowBitrateThreshold
       THEN {SrcKey} ELSE {}
  ELSE IF rule = "high_packet_loss"
  THEN IF srcStatus = "online" /\ highLoss THEN {SrcKey} ELSE {}
  ELSE IF chanStatus = "offline" /\ linked /\ srcStatus = "online"
       THEN {ChanId} ELSE {}

\* a cooldown test that passes at any elapsed time
CanTriggerNoCooldown(trig, rule, e) ==
  trig[rule][e] = NoTime \/ Seconds(now - trig[rule][e]) >= 0
\* AlertRule.can_trigger
CanTrigger(trig, rule, e) ==
  trig[rule][e] = NoTime \/ Seconds(now - trig[rule][e]) >= CooldownSeconds

\* _create_alert: the channel the insight is attached to, if there is one
AlertHasChannel(e) == e = ChanId \/ linked

\* _check_rule for one rule, on the worker state st = [trig, alerts, firings]
CheckRule(st, rule, recent, highLoss) ==
  IF Detected(rule, recent, highLoss) = {}
  THEN st
  ELSE LET e == CHOOSE x \in Detected(rule, recent, highLoss) : TRUE IN
       IF ~CanTrigger(st.trig, rule, e)
       THEN st
       ELSE [trig |-> [st.trig EXCEPT ![rule][e] = now],
             alerts |-> IF AlertHasChannel(e)
                        THEN Append(st.alerts,
                                    [rule |-> rule, severity |-> RuleSeverity(rule),
                                     entity |-> e, at |-> now])
                        ELSE st.alerts,
             firings |-> Append(st.firings, [rule |-> rule, entity |-> e, at |-> now])]

\* the time since last_seen_at, in seconds, as the alert cycle may find it
SeenAgo == {0, 1800, 3599, 3600, 7200, DaySeconds + 600}
HourSeconds == 3600
\* _check_source_disconnected: (utcnow() - last_seen_at).seconds < 3600
RecentlySeen(ago) == Seconds(ago) < HourSeconds

\* _alert_cycle: the four rules in order, with no suspension in between;
\* ago: the time since the source was last seen
AlertCycleSeen(ago, highLoss) ==
  /\ ~shutdown
  /\ Len(firings) < MaxFirings
  /\ LET recent == RecentlySeen(ago) IN
       LET s0 == [trig |-> alertTrig, alerts |-> alerts, firings |-> firings]
           s1 == CheckRule(s0, Rules[1], recent, highLoss)
           s2 == CheckRule(s1, Rules[2], recent, highLoss)
           s3 == CheckRule(s2, Rules[3], recent, highLoss)
           s4 == CheckRule(s3, Rules[4], recent, highLoss)
       IN /\ alertTrig' = s4.trig
          /\ alerts' = s4.alerts
          /\ firings' = s4.firings
  /\ UNCHANGED <<coreVars, now, bitrate, linked, recVars, workers, reconnectedAt>>

AlertCycle == \E ago \in SeenAgo, highLoss \in BOOLEAN : AlertCycleSeen(ago, highLoss)

\* time passes between alert cycles: by one step, or by a whole day
AlertTick ==
  /\ \/ /\ Seconds(now) + AlertTickLen <= MaxAlertTicks * AlertTickLen
        /\ now' = now + AlertTickLen
     \/ /\ now \div DaySeconds < MaxDays
        /\ now' = now + DaySeconds
  /\ UNCHANGED <<coreVars, alertVars, recVars, workers, reconnectedAt>>

\* a lifecycle cycle probes the online source and add_metric appends a row
\* with bitrate_kbps b
OnlineProbeAddsMetric(b) ==
  /\ ~shutdown
  /\ srcStatus = "online"
  /\ monPc = "idle"
  /\ IsRunning(SrcKey)
  /\ ProbeDone("probe_online", TRUE, FALSE)
  /\ bitrate' = b
  /\ UNCHANGED <<proc, registry, monVars, chanVars, req, shutdown, seq,
                 now, linked, alertTrig, alerts, firings, recVars, workers, reconnectedAt>>

\* the source online with its first metric row, with or without a channel
InitAlert ==
  /\ proc = [p \in Pids |->
               IF p = 1
               THEN [key |-> SrcKey, st |-> "running", handle |-> "live", stderr |-> TRUE]
               ELSE NoProc]
  /\ registry = {<<SrcKey, 1>>}
  /\ srcStatus = "online"
  /\ lastSeen = 1
  /\ metrics = <<1>>
  /\ hasLastProbe = TRUE
  /\ monPc = "idle"
  /\ monPid = NoPid
  /\ chanStatus = "offline"
  /\ events = <<>>
  /\ req = [r \in Slots |-> FreeReq]
  /\ shutdown = FALSE
  /\ seq = [k \in Keys |-> "idle"]
  /\ now = 0
  /\ bitrate \in Bitrates
  /\ linked \in BOOLEAN
  /\ alertTrig = NoTrig
  /\ alerts = <<>>
  /\ firings = <<>>
  /\ recs = NoRecs
  /\ recEnabled = FALSE
  /\ activeRecordings = {}
  /\ ret = "none"
  /\ workers = IdleWorkers
  /\ reconnectedAt = NoTime

NextAlert ==
  \/ AlertCycle
  \/ AlertTick
  \/ \E bps \in ProbeBitrates : OnlineProbeAddsMetric(BitrateKbps(bps))
  \/ \E p \in Pids : StderrError(p)

SpecAlert == InitAlert /\ [][NextAlert]_vars

\* ---- the recording worker ----
\* RecordingService.create_recording(db, channel_id, **kwargs) builds
\* Recording(channel_id=..., started_at=..., status="recording", **kwargs);
\* _start_recording calls it with the keywords format and status
CreateExplicitKeywords == {"channel_id", "started_at", "status"}
StartRecordingKwargs == {"format", "status"}
\* a keyword given twice in one call: Python raises TypeError at the call
KeywordClash == CreateExplicitKeywords \cap StartRecordingKwargs # {}

ActiveRows(rs) == {i \in RecIds : rs[i].status = "recording"}
FreeRecIds(rs) == {i \in RecIds : rs[i].status = "absent"}

\* the row create_recording commits when the call goes through
CreateRow(rs) ==
  IF FreeRecIds(rs) = {} THEN rs
  ELSE LET i == CHOOSE x \in FreeRecIds(rs) : \A y \in FreeRecIds(rs) : x <= y IN
       [rs EXCEPT ![i] = [status |-> "recording", started |-> now, ended |-> NoTime,
                          duration |-> NoTime, size |-> "null"]]

\* _start_recording: its first statement is the create_recording call, which
\* raises; nothing after it (output path, capture process, active_recordings
\* entry, watch task) is reached
StartRecording(rs) == IF KeywordClash THEN rs ELSE CreateRow(rs)

\* an _ensure_recording that creates a row without looking for an active one
EnsureRecordingUnchecked(rs) == CreateRow(rs)
\* _ensure_recording for the channel: nothing when the channel is not live with
\* recording enabled or is being recorded, else _start_recording, whose
\* exception is caught and logged
EnsureRecording(rs) ==
  IF chanStatus = "live" /\ recEnabled /\ ActiveRows(rs) = {}
  THEN StartRecording(rs) ELSE rs

\* a stop that sets the status and the end time and leaves the duration
FinalizeNoDuration(r) ==
  [r EXCEPT !.status = "completed", !.ended = now]
\* RecordingService.stop_recording
Finalize(r) ==
  [r EXCEPT !.status = "completed", !.ended = now, !.duration = now - r.started]

\* _stop_recording for a row with no entry in active_recordings: stop_recording,
\* then the file size when the file is there (hasFile)
StopRecordingRow(r, hasFile) ==
  [Finalize(r) EXCEPT !.size = IF hasFile THEN "set" ELSE r.size]

\* a selection that takes every row of the table
RowsToStopAnyStatus(rs) ==
  IF chanStatus # "live" THEN {i \in RecIds : rs[i].status # "absent"} ELSE {}
\* _recording_cycle, step 2: the rows in recording whose channel is not live
RowsToStop(rs) ==
  IF chanStatus # "live" THEN ActiveRows(rs) ELSE {}

\* _recording_cycle: _ensure_recording for the live channel with recording
\* enabled (the TypeError of _start_recording is caught and logged), then the
\* stops; no statement of the cycle suspends
RecordingCycle ==
  /\ ~shutdown
  /\ \E hasFile \in BOOLEAN :
       LET ensured == EnsureRecording(recs)
       IN recs' = [i \in RecIds |->
                    IF i \in RowsToStop(ensured) /\ i \notin activeRecordings
                    THEN StopRecordingRow(ensured[i], hasFile) ELSE ensured[i]]
  /\ UNCHANGED <<coreVars, now, alertVars, recEnabled, activeRecordings, ret, workers, reconnectedAt>>

\* POST /recordings -> start_manual_recording: ValueError when the channel is
\* not live or is being recorded (400), else the TypeError of _start_recording
\* (500)
StartManualRecording ==
  /\ ~shutdown
  /\ IF chanStatus # "live" \/ ActiveRows(recs) # {}
     THEN /\ ret' = "rejected"
          /\ UNCHANGED recs
     ELSE /\ recs' = StartRecording(recs)
          /\ ret' = IF KeywordClash THEN "error" ELSE "created"
  /\ UNCHANGED <<coreVars, now, alertVars, recEnabled, activeRecordings, workers, reconnectedAt>>

\* a test that lets every row of the table through
CanStopManualAnyStatus(r) == r.status # "absent"
\* stop_manual_recording: the recording exists and is in recording status
CanStopManual(r) == r.status # "absent" /\ r.status = "recording"

\* stop_manual_recording(recording_id)
StopManualRecording(i) ==
  /\ ~shutdown
  /\ i \notin activeRecordings
  /\ IF CanStopManual(recs[i])
     THEN /\ \E hasFile \in BOOLEAN :
               recs' = [recs EXCEPT ![i] = StopRecordingRow(recs[i], hasFile)]
          /\ ret' = "true"
     ELSE /\ ret' = "false"
          /\ UNCHANGED recs
  /\ UNCHANGED <<coreVars, now, alertVars, recEnabled, activeRecordings, workers, reconnectedAt>>

\* the rows of a recordings table as the application finds it: each row absent
\* or in one of its statuses, at most one of them in recording
RecRows ==
  {NoRec,
   [status |-> "recording", started |-> 0, ended |-> NoTime, duration |-> NoTime, size |-> "null"],
   [status |-> "completed", started |-> 0, ended |-> 0, duration |-> 0, size |-> "set"],
   [status |-> "failed", started |-> 0, ended |-> NoTime, duration |-> NoTime, size |-> "null"]}

\* the source online and the channel offline, as in InitOnline, with the
\* recordings table and the recording flag of the channel
InitRec ==
  /\ proc = [p \in Pids |->
               IF p = 1
               THEN [key |-> SrcKey, st |-> "running", handle |-> "live", stderr |-> TRUE]
               ELSE NoProc]
  /\ registry = {<<SrcKey, 1>>}
  /\ srcStatus = "online"
  /\ lastSeen = 1
  /\ metrics = <<1>>
  /\ hasLastProbe = TRUE
  /\ monPc = "idle"
  /\ monPid = NoPid
  /\ chanStatus = "offline"
  /\ events = <<>>
  /\ req = [r \in Slots |-> FreeReq]
  /\ shutdown = FALSE
  /\ seq = [k \in Keys |-> "idle"]
  /\ now = 0
  /\ bitrate = NoBitrate
  /\ linked = TRUE
  /\ alertTrig = NoTrig
  /\ alerts = <<>>
  /\ firings = <<>>
  /\ recs \in {rs \in [RecIds -> RecRows] : Cardinality(ActiveRows(rs)) <= 1}
  /\ recEnabled \in BOOLEAN
  /\ activeRecordings = {}
  /\ ret = "none"
  /\ workers = IdleWorkers
  /\ reconnectedAt = NoTime

\* the recording worker and the manual requests, with the channel started and
\* stopped by one request at a time
NextRec ==
  \/ RecordingCycle
  \/ StartManualRecording
  \/ \E i \in RecIds : StopManualRecording(i)
  \/ AlertTick
  \/ StartChannel(1)
  \/ StartChannelRegister(1)
  \/ StopChannel(1)
  \/ StopKill(1)
  \/ StopResume(1)

SpecRec == InitRec /\ [][NextRec]_vars

\* the starts of the two callers of start_ingest, the lifecycle cycle for the
\* source and start_channel for the channel, one request at a time, with the
\* reconnect that brings a failed source back to connecting
NextStart ==
  \/ \E p \in Pids : ProcExit(p)
  \/ MonitorCycle
  \/ MonRegister
  \/ MonProbeDone
  \/ ReconnectSource(1)
  \/ StopKill(1)
  \/ StopResume(1)
  \/ StartChannel(1)
  \/ StartChannelRegister(1)

SpecStart == Init /\ [][NextStart]_vars

\* ---- switch_source ----
\* the modelled source and one other source, of which only the status counts
OtherSrc == "s2"
Sources == {SrcKey, OtherSrc}

\* Channel.source_id
ChannelSource == IF linked THEN SrcKey ELSE OtherSrc

\* source.status == "online"; otherOnline: the status of the other source
SourceOnline(src, otherOnline) ==
  IF src = SrcKey THEN srcStatus = "online" ELSE otherOnline

\* the source_changed event with its details old_source_id, new_source_id
SourceChanged(old, new) ==
  IF old = SrcKey
  THEN (IF new = SrcKey THEN "source_changed s1 s1" ELSE "source_changed s1 s2")
  ELSE (IF new = SrcKey THEN "source_changed s2 s1" ELSE "source_changed s2 s2")

SwitchReq(old, new, ev0, h, pc) ==
  [op |-> "switch", key |-> ChanKey, h |-> h, pc |-> pc,
   old |-> old, new |-> new, ev0 |-> ev0]

\* switch_source once its stop_channel is over (ok: it returned True, after
\* offline and the stopped event; ~ok: it caught an exception and returned
\* False, which switch_source does not look at), with proc1 and reg1 as the
\* stop left them: update_channel(source_id), then start_channel up to its
\* spawn (online: the new source is online when start_channel reads it)
SwitchAfterStop(r, old, new, ev0, ok, online, protocol, resolved, proc1, reg1) ==
  LET st1 == IF ok THEN "offline" ELSE chanStatus
      ev1 == IF ok THEN Append(events, "stopped") ELSE events
  IN /\ linked' = (new = SrcKey)
     /\ registry' = reg1
     /\ events' = ev1
     /\ IF ~online
        THEN \* start_channel raises ValueError: switch_source returns False
             /\ proc' = proc1
             /\ chanStatus' = st1
             /\ req' = [req EXCEPT ![r] = FreeReq]
             /\ seq' = [seq EXCEPT ![ChanKey] = "idle"]
        ELSE \/ /\ ~InputArgsRaise(protocol, resolved)
                /\ CanSpawn
                /\ proc' = [proc1 EXCEPT ![NextPid] =
                             [key |-> ChanKey, st |-> "running", handle |-> "none", stderr |-> FALSE]]
                /\ chanStatus' = st1
                /\ req' = [req EXCEPT ![r] = SwitchReq(old, new, ev0, NextPid, "spawned")]
                /\ seq' = [seq EXCEPT ![ChanKey] = "idle"]
             \/ \* start_ingest raises: start_channel sets error and re-raises,
                \* switch_source returns False
                /\ proc' = proc1
                /\ chanStatus' = "error"
                /\ req' = [req EXCEPT ![r] = FreeReq]
                /\ seq' = [seq EXCEPT ![ChanKey] = SeqStartRaised(protocol, resolved)]

\* POST /channels/{id}/switch-source -> ChannelService.switch_source, up to its
\* first suspension
SwitchSource(r) ==
  /\ ~shutdown
  /\ FreeSlot(r)
  /\ Len(events) < MaxEvents
  /\ \E new \in Sources, otherOnline \in BOOLEAN, protocol \in Protocols, resolved \in BOOLEAN :
       LET old == ChannelSource
           ev0 == Len(events)
       IN /\ SourceOnline(new, otherOnline)
          /\ IF chanStatus # "live"
             THEN \* the reference and the event only
                  /\ linked' = (new = SrcKey)
                  /\ events' = Append(events, SourceChanged(old, new))
                  /\ UNCHANGED <<proc, registry, chanStatus, req, seq>>
             ELSE IF ~HasKey(registry, ChanKey)
             THEN SwitchAfterStop(r, old, new, ev0, TRUE, TRUE, protocol, resolved,
                                  proc, registry)
             ELSE LET h == Lookup(registry, ChanKey) IN
                  IF proc[h].handle # "live"
                  THEN SwitchAfterStop(r, old, new, ev0, TRUE, TRUE, protocol, resolved,
                                       proc, DictDel(registry, ChanKey))
                  ELSE \/ \* stop_ingest is suspended in process.wait()
                          /\ req' = [req EXCEPT ![r] = SwitchReq(old, new, ev0, h, "waiting")]
                          /\ seq' = [seq EXCEPT ![ChanKey] = "idle"]
                          /\ UNCHANGED <<proc, registry, chanStatus, events, linked>>
                       \/ \* terminate() raises ProcessLookupError: stop_channel
                          \* returns False
                          /\ proc[h].st = "exited"
                          /\ SwitchAfterStop(r, old, new, ev0, FALSE, TRUE, protocol, resolved,
                                             proc, registry)
  /\ UNCHANGED <<srcVars, monVars, shutdown, now, bitrate, alertTrig, alerts, firings, recVars, workers, reconnectedAt>>

\* the stop_ingest of a switch_source resumes after process.wait()
SwitchStopResume(r) ==
  /\ req[r].op = "switch"
  /\ req[r].pc = "waiting"
  /\ proc[req[r].h].st = "exited"
  /\ \E otherOnline \in BOOLEAN, protocol \in Protocols, resolved \in BOOLEAN :
       LET proc1 == [proc EXCEPT ![req[r].h].handle = "stopped"]
           online == SourceOnline(req[r].new, otherOnline)
       IN IF HasKey(registry, ChanKey)
          THEN SwitchAfterStop(r, req[r].old, req[r].new, req[r].ev0, TRUE, online,
                               protocol, resolved, proc1, DictDel(registry, ChanKey))
          ELSE \* KeyError: stop_channel returns False
               SwitchAfterStop(r, req[r].old, req[r].new, req[r].ev0, FALSE, online,
                               protocol, resolved, proc1, registry)
  /\ UNCHANGED <<srcVars, monVars, shutdown, now, bitrate, alertTrig, alerts, firings, recVars, workers, reconnectedAt>>

\* the start_channel of a switch_source resumes after the spawn: the handle is
\* registered, status live, event started; then the source_changed event and
\* return True
SwitchRegister(r) ==
  /\ req[r].op = "switch"
  /\ req[r].pc = "spawned"
  /\ Register(ChanKey, req[r].h)
  /\ chanStatus' = "live"
  /\ events' = Append(Append(events, "started"), SourceChanged(req[r].old, req[r].new))
  /\ req' = [req EXCEPT ![r] = FreeReq]
  /\ seq' = [seq EXCEPT ![ChanKey] = "idle"]
  /\ UNCHANGED <<srcVars, monVars, shutdown, auxVars>>

\* the source online and the channel offline or started on it
InitSwitch ==
  /\ \E live \in BOOLEAN :
       /\ proc = [p \in Pids |->
                    IF p = 1
                    THEN [key |-> SrcKey, st |-> "running", handle |-> "live", stderr |-> TRUE]
                    ELSE IF p = 2 /\ live
                    THEN [key |-> ChanKey, st |-> "running", handle |-> "live", stderr |-> FALSE]
                    ELSE NoProc]
       /\ registry = (IF live THEN {<<SrcKey, 1>>, <<ChanKey, 2>>} ELSE {<<SrcKey, 1>>})
       /\ chanStatus = (IF live THEN "live" ELSE "offline")
       /\ events = (IF live THEN <<"started">> ELSE <<>>)
  /\ srcStatus = "online"
  /\ lastSeen = 1
  /\ metrics = <<1>>
  /\ hasLastProbe = TRUE
  /\ monPc = "idle"
  /\ monPid = NoPid
  /\ req = [r \in Slots |-> FreeReq]
  /\ shutdown = FALSE
  /\ seq = [k \in Keys |-> "idle"]
  /\ now = 0
  /\ bitrate = NoBitrate
  /\ linked = TRUE
  /\ alertTrig = NoTrig
  /\ alerts = <<>>
  /\ firings = <<>>
  /\ recs = NoRecs
  /\ recEnabled = FALSE
  /\ activeRecordings = {}
  /\ ret = "none"
  /\ workers = IdleWorkers
  /\ reconnectedAt = NoTime

\* switch_source and stop_channel requests, overlapping, while the processes
\* may exit on their own
NextSwitch ==
  \/ \E p \in Pids : ProcExit(p)
  \/ \E r \in Reqs : SwitchSource(r)
  \/ \E r \in Reqs : SwitchStopResume(r)
  \/ \E r \in Reqs : SwitchRegister(r)
  \/ \E r \in Reqs : StopChannel(r)
  \/ \E r \in Reqs : StopKill(r)
  \/ \E r \in Reqs : StopResume(r)

SpecSwitch == InitSwitch /\ [][NextSwitch]_vars

\* ---- the worker loops: start(), the cycle and its per-entity handlers ----
\* the elements of a set of integers in ascending order
Ascending(S) ==
  CHOOSE f \in [1..Cardinality(S) -> S] :
    \A i, j \in 1..Cardinality(S) : i < j => f[i] < f[j]

\* the entities a cycle takes, in order: the active sources, the rules, the
\* rows in recording status (rs: the table after the _ensure_recording calls)
WorkList(w, rs) ==
  IF w = "lifecycle" THEN <<SrcKey, OtherSrc>>
  ELSE IF w = "alerts" THEN Rules
  ELSE Ascending(ActiveRows(rs))

\* a lifecycle cycle whose handler lets the exception out
CaughtPerEntityAlertsOnly(w) == w \in {"alerts"}
\* the handler of one entity is wrapped in try/except Exception:
\* _monitor_source and _check_rule are, the stop loop of _recording_cycle and
\* _stop_recording are not
CaughtPerEntity(w) == w \in {"lifecycle", "alerts"}

\* start(): the worker leaves its sleep and begins a cycle; the recording cycle
\* first runs _ensure_recording for the live channel, then queries the rows
WorkerBeginCycle(w) ==
  /\ ~shutdown
  /\ workers[w].pc \in {"sleep", "sleep5"}
  /\ LET rs == IF w = "recording" THEN EnsureRecording(recs) ELSE recs IN
       /\ workers' = [workers EXCEPT ![w] =
                        [pc |-> "cycle", todo |-> WorkList(w, rs),
                         done |-> {}, raised |-> {}]]
       /\ recs' = rs
  /\ UNCHANGED <<coreVars, now, alertVars, recEnabled, activeRecordings, ret, reconnectedAt>>

\* the cycle handles its next entity; raises: the handling raises an exception.
\* Caught in the handler the exception is logged and the loop goes on; not
\* caught it leaves the cycle and start() logs it and sleeps 5 seconds
WorkerHandle(w, raises) ==
  /\ ~shutdown
  /\ workers[w].pc = "cycle"
  /\ workers[w].todo # <<>>
  /\ LET e == Head(workers[w].todo) IN
       IF ~raises
       THEN /\ workers' = [workers EXCEPT ![w].todo = Tail(@), ![w].done = @ \cup {e}]
            /\ IF w = "recording" /\ e \in RowsToStop(recs) /\ e \notin activeRecordings
               THEN \E hasFile \in BOOLEAN :
                      recs' = [recs EXCEPT ![e] = StopRecordingRow(recs[e], hasFile)]
               ELSE UNCHANGED recs
       ELSE /\ workers' = [workers EXCEPT
                             ![w].todo = Tail(@), ![w].raised = @ \cup {e},
                             ![w].pc = IF CaughtPerEntity(w) THEN "cycle" ELSE "sleep5"]
            /\ UNCHANGED recs
  /\ UNCHANGED <<coreVars, now, alertVars, recEnabled, activeRecordings, ret, reconnectedAt>>

\* the cycle has taken every entity: start() sleeps for the interval
WorkerEndCycle(w) ==
  /\ ~shutdown
  /\ workers[w].pc = "cycle"
  /\ workers[w].todo = <<>>
  /\ workers' = [workers EXCEPT ![w].pc = "sleep"]
  /\ UNCHANGED <<coreVars, now, alertVars, recVars, reconnectedAt>>

\* the channel offline, with recordings of it in the table, any number of them
\* in recording status
InitWorkers ==
  /\ proc = [p \in Pids |-> NoProc]
  /\ registry = {}
  /\ srcStatus = "connecting"
  /\ lastSeen = 0
  /\ metrics = <<>>
  /\ hasLastProbe = FALSE
  /\ monPc = "idle"
  /\ monPid = NoPid
  /\ chanStatus = "offline"
  /\ events = <<>>
  /\ req = [r \in Slots |-> FreeReq]
  /\ shutdown = FALSE
  /\ seq = [k \in Keys |-> "idle"]
  /\ now = 0
  /\ bitrate = NoBitrate
  /\ linked = TRUE
  /\ alertTrig = NoTrig
  /\ alerts = <<>>
  /\ firings = <<>>
  /\ recs \in [RecIds -> RecRows]
  /\ recEnabled \in BOOLEAN
  /\ activeRecordings = {}
  /\ ret = "none"
  /\ workers = IdleWorkers
  /\ reconnectedAt = NoTime

NextWorkers ==
  \/ \E w \in Workers : WorkerBeginCycle(w)
  \/ \E w \in Workers, raises \in BOOLEAN : WorkerHandle(w, raises)
  \/ \E w \in Workers : WorkerEndCycle(w)

SpecWorkers == InitWorkers /\ [][NextWorkers]_vars

TypeOK ==
  /\ srcStatus \in SourceStatus
  /\ chanStatus \in {"offline", "live", "error"}
  /\ Len(metrics) \in 0..MaxMetrics
  /\ registry \subseteq (Keys \X Pids)


\* ---- properties ----
Entries(k) == {e \in registry : e[1] = k}

\* C1: every change of the source's status follows the transition matrix:
\* connecting->online, online->unstable, unstable->online, online->offline,
\* any->error, and error/offline->connecting; no other change happens.
MatrixAllows(a, b) ==
  \/ b = "error"
  \/ <<a, b>> \in {<<"connecting", "online">>, <<"online", "unstable">>,
                   <<"unstable", "online">>, <<"online", "offline">>,
                   <<"error", "connecting">>, <<"offline", "connecting">>}
C1_StatusFollowsMatrix ==
  [][srcStatus' # srcStatus => MatrixAllows(srcStatus, srcStatus')]_vars

\* C2: at every instant the registry holds at most one handle for each key.
C2_OneHandlePerKey == \A k \in Keys : Cardinality(Entries(k)) <= 1

\* C2 witness: a handle registered for a key has been replaced by the handle of
\* a second start for the same key, both processes alive.
C2_Witness ==
  \E p, q \in Pids :
    /\ p # q
    /\ proc[p].key = proc[q].key
    /\ proc[p].st = "running" /\ proc[p].handle = "live"
    /\ proc[q].st = "running" /\ proc[q].handle = "live"
    /\ Entries(proc[q].key) = {<<proc[q].key, q>>}

\* C3: no process spawned for a key keeps running while the registry entry of
\* that key refers to a different process.
C3_NoSecondLiveProcess ==
  \A p \in Pids :
    proc[p].st = "running" =>
      ~\E q \in Pids : q # p /\ <<proc[p].key, q>> \in registry

\* C4: a stop_ingest that resumes after waiting for its process never removes
\* a handle that a start registered meanwhile.
C4_StopKeepsNewHandle ==
  [][\A r \in Slots :
       (req[r].pc = "waiting" /\ req'[r].pc = "none") =>
         \A e \in Entries(req[r].key) : e[2] # req[r].h => e \in registry']_vars

\* C5: after a stop_ingest(key) that returned and a following start_ingest(key),
\* exactly one handle is registered for the key and no other process spawned
\* for the key is still running.
C5_StopThenStart ==
  \A k \in Keys :
    seq[k] = "stop_start" =>
      /\ Cardinality(Entries(k)) = 1
      /\ \A p \in Pids :
           (proc[p].key = k /\ proc[p].st = "running") => <<k, p>> \in registry


\* C6: a channel that is live while no running process is registered for its
\* key is set offline by the controller cycle that runs next (here: a cycle
\* that begins and completes in one step).
ChannelDiverged ==
  /\ chanStatus = "live"
  /\ ~\E e \in Entries(ChanKey) : proc[e[2]].st = "running"
C6_LiveNeedsHandle ==
  [][(MonitorCycle /\ monPc' = "idle" /\ ChannelDiverged) => chanStatus' = "offline"]_vars

\* C7: a lifecycle cycle that finds the source online while the process of its
\* handle has exited on its own (no stop_ingest called) sets the status offline.
ExitedOnItsOwn(k) ==
  /\ HasKey(registry, k)
  /\ proc[Lookup(registry, k)].st = "exited"
  /\ StopsInFlight(k) = {}
C7_DeadProcessGoesOffline ==
  [][(MonitorCycle /\ srcStatus = "online" /\ ExitedOnItsOwn(SrcKey))
       => srcStatus' = "offline"]_vars

\* C8: is_running(key) is true exactly when a handle is registered for the key
\* and the process of that handle has not exited.
C8_IsRunningIffAlive ==
  \A k \in Keys :
    IsRunning(k) <=> (HasKey(registry, k) /\ proc[Lookup(registry, k)].st = "running")

\* C9: a source in status unstable with a running handle is probed by the
\* lifecycle cycle like an online one (the cycle can start a probe).
C9_UnstableIsProbed ==
  (srcStatus = "unstable" /\ IsRunning(SrcKey) /\ monPc = "idle" /\ ~shutdown)
    => ENABLED (MonitorCycle /\ monPc' = "probe_online")

\* C10: a valid probe of a connecting source sets the status online, sets
\* last_seen_at and appends exactly one metric row; rows are appended only by a
\* cycle whose probe was valid, and the rows already there are never changed
\* or removed.
ValidProbeStep == MonProbeDone /\ \E late \in BOOLEAN : ProbeDone(monPc, TRUE, late)
C11_ReconnectFromError ==
  [][\A r \in Reqs :
       /\ (srcStatus = "error" /\ ReconnectSource(r) /\ req'[r].pc = "none") =>
            /\ srcStatus' = "connecting"
            /\ Entries(SrcKey) \cap registry' = {}
       /\ (req[r].op = "reconnect" /\ req[r].pc = "waiting" /\ req'[r].pc = "none"
           /\ srcStatus = "error") =>
            /\ srcStatus' = "connecting"
            /\ <<SrcKey, req[r].h>> \notin registry']_vars


\* C12: a failed probe of a connecting source leaves it connecting while at
\* most 60 s have passed since its creation and moves it to error only when
\* more than 60 s have passed; a connecting source eventually leaves connecting,
\* and it is set online only by a valid probe, so it reaches error when its
\* probes keep failing.
FailedConnectProbe ==
  /\ MonProbeDoneTimed
  /\ monPc = "probe_connecting"
  /\ srcStatus = "connecting"
  /\ srcStatus' # "online"
C12_ConnectDeadline ==
  /\ [][FailedConnectProbe =>
          /\ now <= ConnectDeadline => srcStatus' = "connecting"
          /\ srcStatus' = "error" => now > ConnectDeadline
          /\ srcStatus' \in {"connecting", "error"}]_vars
  /\ [][srcStatus' = "online" /\ srcStatus # "online" => Len(metrics') = Len(metrics) + 1]_vars
  /\ (srcStatus = "connecting") ~> (srcStatus \in {"error", "online"})

\* C12 witness: a probe that failed after the deadline has set the source, whose
\* process is registered, to error.
C12_Witness ==
  /\ srcStatus = "error"
  /\ HasKey(registry, SrcKey)
  /\ now > ConnectDeadline
  /\ monPc = "idle"


\* C13: any two firings of the same rule for the same entity are at least the
\* cooldown window (300 s) apart.
C13_CooldownBetweenFirings ==
  \A i, j \in 1..Len(firings) :
    (i < j /\ firings[i].rule = firings[j].rule /\ firings[i].entity = firings[j].entity)
      => firings[j].at - firings[i].at >= CooldownSeconds

\* C13 witness: a rule has fired twice for the same entity.
C13_Witness ==
  \E i, j \in 1..Len(firings) :
    /\ i < j
    /\ firings[i].rule = firings[j].rule
    /\ firings[i].entity = firings[j].entity


\* C14: for an online source whose most recent metric has bitrate 300 kbps, the
\* first alert cycle creates exactly one alert record of the low_bitrate rule,
\* of severity warning, and a cycle less than 300 s after a firing creates none.
NewLowBitrateAlerts ==
  {i \in (Len(alerts) + 1)..Len(alerts') : alerts'[i].rule = "low_bitrate"}
C14_LowBitrateOnce ==
  [][(AlertCycle /\ srcStatus = "online" /\ bitrate = 300) =>
       /\ alertTrig["low_bitrate"][SrcKey] = NoTime =>
            /\ Cardinality(NewLowBitrateAlerts) = 1
            /\ \A i \in NewLowBitrateAlerts : alerts'[i].severity = "warning"
       /\ (alertTrig["low_bitrate"][SrcKey] # NoTime
           /\ now - alertTrig["low_bitrate"][SrcKey] < CooldownSeconds) =>
            NewLowBitrateAlerts = {}]_vars


\* C15: after a recording cycle, a channel that is live with recording enabled
\* and had no active recording has a Recording row in recording status and a
\* capture process registered for it.
C15_CycleStartsRecording ==
  (chanStatus = "live" /\ recEnabled /\ ActiveRows(recs) = {} /\ ~shutdown) =>
    ENABLED (RecordingCycle /\
             \E i \in RecIds : recs'[i].status = "recording" /\ i \in activeRecordings')


C18_StopManualNoOp ==
  [][\A i \in RecIds :
       (StopManualRecording(i) /\ recs[i].status # "recording") =>
         /\ ret' = "false"
         /\ recs' = recs
         /\ proc' = proc
         /\ registry' = registry
         /\ activeRecordings' = activeRecordings]_vars

\* C18 witness: a stop_manual_recording has returned false while the table
\* holds a completed recording and a free id.
C18_Witness ==
  /\ ret = "false"
  /\ \E i \in RecIds : recs[i].status = "completed"
  /\ \E i \in RecIds : recs[i].status = "absent"

StopIngestAtOnce(k, op) ==
  IF HasKey(registry, k)
  THEN /\ <<k, Lookup(registry, k)>> \notin registry'
       /\ proc'[Lookup(registry, k)].st = "exited"
       /\ Finish(op, TRUE)
  ELSE /\ registry' = registry
       /\ Finish(op, TRUE)
StopIngestAfterWait(r) ==
  /\ <<req[r].key, req[r].h>> \notin registry'
  /\ proc'[req[r].h].st = "exited"
  /\ Finish(req[r].op, TRUE)
C21_StopIngestContract ==
  [][/\ \A r \in Reqs :
          (ReconnectSource(r) /\ req'[r].op = "none") => StopIngestAtOnce(SrcKey, "reconnect")
     /\ \A r \in Reqs :
          (StopChannel(r) /\ req'[r].op = "none") => StopIngestAtOnce(ChanKey, "stop_channel")
     /\ \A k \in Keys :
          (ShutdownStop(k) /\ req'[SdSlot(k)].op = "none") => StopIngestAtOnce(k, "shutdown_stop")
     /\ \A r \in Slots :
          (req[r].pc = "waiting" /\ req'[r].op = "none") => StopIngestAfterWait(r)]_vars


\* C24: once shutdown_all has completed (every stop task it gathered is over),
\* the registry is empty, also when one of the stops failed.
ShutdownAllDone ==
  /\ shutdown
  /\ \A k \in Keys : req[SdSlot(k)].op = "none"
C24_ShutdownEmptiesRegistry ==
  ShutdownAllDone => registry = {}


\* C22: a start_ingest that raises spawns no process and leaves the registry
\* as it was; its caller sees the exception (the lifecycle cycle and
\* start_channel set the status error, start_channel appends no event and keeps
\* no task) and the error callback of the lifecycle cycle has set the source
\* to error.
SourceStartRaised ==
  /\ MonitorCycle
  /\ srcStatus = "connecting"
  /\ ~IsRunning(SrcKey)
  /\ monPc' = "idle"
ChannelStartRaised == \E r \in Reqs : StartChannel(r) /\ req'[r].op = "none"
C22_FailedStartRegistersNothing ==
  [][/\ SourceStartRaised =>
          /\ srcStatus' = "error"
          /\ registry' = registry
          /\ proc' = proc
     /\ ChannelStartRaised =>
          /\ chanStatus' = "error"
          /\ events' = events
          /\ registry' = registry
          /\ proc' = proc]_vars

\* C22 witness: the spawn of the channel's process has raised: the channel is
\* in error with no handle and no process for its key, its source online.
C22_Witness ==
  /\ seq[ChanKey] = "spawn_raised"
  /\ chanStatus = "error"
  /\ srcStatus = "online"
  /\ ~HasKey(registry, ChanKey)
  /\ \A p \in Pids : proc[p].st # "none" => proc[p].key # ChanKey


\* C23: a start_ingest for a youtube source whose URL resolution yields no
\* stream URL fails with the ValueError of _build_input_args: no process is
\* spawned, the registry is as before, and the caller has set its status error.
C23_UnresolvedYoutubeFails ==
  [][/\ (MonitorSource("youtube", FALSE) /\ srcStatus = "connecting" /\ ~IsRunning(SrcKey)) =>
          /\ seq'[SrcKey] = "input_raised"
          /\ srcStatus' = "error"
          /\ proc' = proc
          /\ registry' = registry
     /\ \A r \in Reqs :
          StartChannelCall(r, "youtube", FALSE) =>
            /\ seq'[ChanKey] = "input_raised"
            /\ chanStatus' = "error"
            /\ proc' = proc
            /\ registry' = registry]_vars

\* C23 witness: the first start of the source failed at the resolution: no
\* process was ever spawned and no handle is registered.
C23_Witness ==
  /\ seq[SrcKey] = "input_raised"
  /\ srcStatus = "error"
  /\ registry = {}
  /\ Spawned = {}


\* C25: a process for the channel's key is spawned only while the source is
\* online; a start_channel that succeeds leaves the channel live with its handle
\* registered and one started event appended; one whose process start raised
\* leaves the channel in error with no event appended and no task behind.
ChannelProcessSpawned ==
  \E p \in Pids : proc[p].st = "none" /\ proc'[p].st # "none" /\ proc'[p].key = ChanKey
StopChannelEnds(r) ==
  \/ StopChannel(r) /\ req'[r].op = "none"
  \/ req[r].op = "stop_channel" /\ req[r].pc = "waiting" /\ req'[r].op = "none"
C26_StopChannelContract ==
  [][\A r \in Reqs :
       (StopChannelEnds(r) /\ (events' # events \/ chanStatus' # chanStatus)) =>
         /\ ~HasKey(registry', ChanKey)
         /\ chanStatus' = "offline"
         /\ events' = Append(events, "stopped")]_vars

\* C26 witness: the channel was started and then stopped: it is offline, its
\* process has exited, no handle is registered for its key and stopped is its
\* last event.
C26_Witness ==
  /\ chanStatus = "offline"
  /\ events = <<"started", "stopped">>
  /\ ~HasKey(registry, ChanKey)
  /\ \E p \in Pids : proc[p].key = ChanKey /\ proc[p].st = "exited" /\ proc[p].handle = "stopped"


\* C27: a switch_source of a live channel that returns true leaves the channel
\* live on the new source with exactly one handle for its key, and the
\* source_changed event with the old and the new id comes last, after a
\* stopped and a started event appended during the call; on a channel that is
\* not live it changes the source reference and appends the event, nothing else.
C27_SwitchSourceContract ==
  [][\A r \in Reqs :
       /\ SwitchRegister(r) =>
            /\ chanStatus' = "live"
            /\ ChannelSource' = req[r].new
            /\ Cardinality({e \in registry' : e[1] = ChanKey}) = 1
            /\ events'[Len(events')] = SourceChanged(req[r].old, req[r].new)
            /\ \E i, j \in (req[r].ev0 + 1)..(Len(events') - 1) :
                 i < j /\ events'[i] = "stopped" /\ events'[j] = "started"
       /\ (SwitchSource(r) /\ chanStatus # "live") =>
            /\ \E new \in Sources :
                 /\ ChannelSource' = new
                 /\ events' = Append(events, SourceChanged(ChannelSource, new))
            /\ chanStatus' = chanStatus
            /\ proc' = proc
            /\ registry' = registry]_vars


C29_EntityFailureIsolated ==
  \A w \in Workers :
    /\ workers[w].pc \in {"sleep", "sleep5"} => workers[w].todo = <<>>
    /\ workers[w].pc \in {"sleep", "sleep5"} => ENABLED WorkerBeginCycle(w)


\* C30: while no reconnect_source call is under way, a source in status
\* offline or error keeps its status and no process is spawned for it,
\* whatever lifecycle cycles and callbacks run.
ReconnectUnderWay ==
  \E r \in Reqs : req[r].op = "reconnect" \/ ReconnectSource(r)
C30_OfflineErrorPersists ==
  [][(srcStatus \in {"offline", "error"} /\ ~ReconnectUnderWay) =>
       /\ srcStatus' = srcStatus
       /\ \A p \in Pids :
            (proc[p].st = "none" /\ proc'[p].st # "none") => proc'[p].key # SrcKey]_vars


\* C31: the status a lifecycle cycle writes when it resumes after a probe never
\* replaces a status that another writer (reconnect_source, an error callback)
\* wrote while the cycle was suspended: the cycle changes the status only when
\* the status is still the one it read at its beginning.
StatusReadByCycle ==
  IF monPc = "probe_connecting" THEN "connecting"
  ELSE IF monPc = "probe_online" THEN "online"
  ELSE srcStatus
C31_CycleWriteIsAtomic ==
  [][(MonProbeDone /\ srcStatus' # srcStatus) => srcStatus = StatusReadByCycle]_vars


\* C32: when the application shuts down, the lifecycle worker is stopped
\* between two cycles: no cycle is suspended part-way (in a process start or
\* in a probe) at the moment its task is stopped.
C32_ShutdownBetweenCycles ==
  [][Shutdown => monPc = "idle"]_vars


\* C33: an alert cycle that finds the source_disconnected rule never fired for
\* the source fires it if and only if the source is offline or in error, has a
\* last-seen time and was last seen less than one hour ago; a source last seen
\* an hour or more ago, a day or more included, is not reported.
NewDisconnectedFirings ==
  {i \in (Len(firings) + 1)..Len(firings') :
     firings'[i].rule = "source_disconnected" /\ firings'[i].entity = SrcKey}
C33_DisconnectedWithinHour ==
  [][\A ago \in SeenAgo, highLoss \in BOOLEAN :
       (AlertCycleSeen(ago, highLoss) /\ alertTrig["source_disconnected"][SrcKey] = NoTime) =>
         (NewDisconnectedFirings # {} <=>
            (srcStatus \in {"offline", "error"} /\ lastSeen # 0 /\ ago < HourSeconds))]_vars


\* C34: an alert cycle that finds the low_bitrate rule never fired for the
\* source fires it if and only if the source is online and its most recent
\* metric row has a bitrate value below 500 kbps, the value 0 included; a most
\* recent bitrate of 500 kbps or more is not reported.
NewLowBitrateFirings ==
  {i \in (Len(firings) + 1)..Len(firings') :
     firings'[i].rule = "low_bitrate" /\ firings'[i].entity = SrcKey}
C34_LowBitrateBelowThreshold ==
  [][(AlertCycle /\ alertTrig["low_bitrate"][SrcKey] = NoTime) =>
       (NewLowBitrateFirings # {} <=>
          (srcStatus = "online" /\ bitrate # NoBitrate /\ bitrate < LowBitrateThreshold))]_vars


\* C35: a switch_source call that returns false has changed nothing: in the
\* step in which it returns, the channel's source reference, its status, its
\* event log and the registry entry of its key are left as they were (the
\* steps of the call before it write none of them).
SwitchReturnsFalse(r) ==
  \/ SwitchSource(r) /\ chanStatus = "live" /\ req'[r].op = "none"
  \/ SwitchStopResume(r) /\ req'[r].op = "none"
C35_FailedSwitchChangesNothing ==
  [][\A r \in Reqs :
       SwitchReturnsFalse(r) =>
         /\ ChannelSource' = ChannelSource
         /\ chanStatus' = chanStatus
         /\ events' = events
         /\ {e \in registry' : e[1] = ChanKey} = {e \in registry : e[1] = ChanKey}]_vars


\* C36: an error line read from the diagnostic output of a process of the
\* source that has been stopped, or whose handle is no longer the registered
\* one, does not change the status of the source.
StoppedOrReplaced(p) ==
  /\ proc[p].key = SrcKey
  /\ \/ proc[p].handle = "stopped"
     \/ proc[p].handle = "live" /\ <<SrcKey, p>> \notin registry
C36_LateErrorLineIgnored ==
  [][\A p \in Pids :
       (StderrError(p) /\ StoppedOrReplaced(p)) => srcStatus' = srcStatus]_vars


\* C37: after reconnect_source has set a source back to connecting, a failed
\* probe moves it to error only once more than 60 seconds have passed since
\* that reconnect.
C37_DeadlineFromReconnect ==
  [][(FailedConnectProbe /\ reconnectedAt # NoTime /\ srcStatus' = "error") =>
       now - reconnectedAt > ConnectDeadline]_vars


\* C38: the last-fired time of a rule for an entity changes only in a step
\* that creates an alert record of that rule for that entity.
C38_CooldownNeedsAlertRecord ==
  [][\A rule \in RuleNames, e \in Entities :
       alertTrig'[rule][e] # alertTrig[rule][e] =>
         \E i \in (Len(alerts) + 1)..Len(alerts') :
           alerts'[i].rule = rule /\ alerts'[i].entity = e]_vars


\* C39: once the lifespan shutdown is over (worker tasks cancelled, every stop
\* task gathered by shutdown_all finished), no process spawned by the core is
\* still running.
C39_NoProcessAfterShutdown ==
  ShutdownAllDone => \A p \in Pids : proc[p].st # "running"


\* C40: of two stop_ingest calls for one key that wait for the same process,
\* the one that resumes second (the handle is already marked stopped by the
\* first) finds the key in active_processes, so its `del` raises no KeyError
\* and it returns, and no handle for the key is registered afterwards.
SecondStopResumes(r) ==
  StopResume(r) /\ proc[req[r].h].handle = "stopped"
C40_OverlappingStopsReturn ==
  [][\A r \in Slots :
       SecondStopResumes(r) =>
         /\ HasKey(registry, req[r].key)
         /\ ~HasKey(registry', req[r].key)]_vars
====
